---- MODULE Spec2Model ----
(***************************************************************************)
(* Model of the BookServer assessment-results endpoint                     *)
(* (bookserver/routers/assessment.py, get_assessment_results) and of the   *)
(* database-cleaning pytest fixture (test/conftest.py, bookserver_session).*)
(*                                                                         *)
(* Python values are modelled as tagged records so that None, the empty    *)
(* string, non-empty strings, answer-table rows and raised exceptions are  *)
(* all distinct values that can be compared with one another.              *)
(***************************************************************************)
EXTENDS Integers, Sequences, FiniteSets, TLC

\* ------------------------------------------------------------------------
\* Bounds of the model
\* ------------------------------------------------------------------------
NumInv == 2        \* number of concurrent invocations of the endpoint
MaxStore == 2      \* number of answers recorded in the answer table
NumTables == 3     \* number of entries of tables_to_delete that are modelled
MaxRows == 2       \* rows a test can leave behind in one table

Inv == 1..NumInv
Tables == 1..NumTables

\* ------------------------------------------------------------------------
\* Python values
\* ------------------------------------------------------------------------
None == [tag |-> "None"]
\* A local that has not been bound yet (no Python value).
Pending == [tag |-> "pending"]
Str(s) == [tag |-> "str", val |-> s]
Bool(b) == [tag |-> "bool", val |-> b]
Raise(e) == [tag |-> "raise", val |-> e]
Row(s, d, ts) == [tag |-> "row", sid |-> s, div_id |-> d, timestamp |-> ts]

\* Python truthiness, as used by ``not request_data.sid`` and ``not row``.
Truthy(v) ==
    CASE v.tag = "None" -> FALSE
      [] v.tag = "str" -> v.val # ""
      [] v.tag = "bool" -> v.val
      [] OTHER -> TRUE

\* Accounts known to the server; Instructors is the course_instructor table.
Usernames == {"prof1", "stu1"}
Instructors == {"prof1"}
DivIds == {"q1"}

\* request.state.user: None when nobody is logged in.
UserValues == {None} \cup {Str(u) : u \in Usernames}
\* The client-supplied sid: absent, empty, or some account's id.
SidValues == {None, Str("")} \cup {Str(u) : u \in Usernames}

VARIABLES
    pc,        \* position of each invocation of get_assessment_results
    user,      \* request.state.user of each invocation
    reqSid,    \* the sid the client put in the request body
    sid,       \* request_data.sid of each invocation
    div_id,    \* request_data.div_id of each invocation
    query,     \* the request_data passed to fetch_last_answer_table_entry
    instr,     \* what is_instructor returned (or raised)
    row,       \* what fetch_last_answer_table_entry returned (or raised)
    result,    \* what the invocation returned (or raised)
    log,       \* the steps each invocation has performed, in order
    store,     \* the answer table: sids of the recorded answers, oldest first
    fpc,       \* position of the bookserver_session fixture
    dbType,    \* settings.database_type
    rows,      \* number of rows in each table of tables_to_delete
    idx        \* loop index of ``for table in tables_to_delete``

hvars == <<pc, user, reqSid, sid, div_id, query, instr, row, result, log, store>>
fvars == <<fpc, dbType, rows, idx>>
vars == <<pc, user, reqSid, sid, div_id, query, instr, row, result, log, store,
          fpc, dbType, rows, idx>>

\* ------------------------------------------------------------------------
\* Collaborators of the endpoint
\* ------------------------------------------------------------------------

\* session.is_instructor: raises HTTP 401 when no user is logged in, else
\* answers from the course_instructor table; the database may fail.
IsInstructorOutcomes(u) ==
    IF u = None
    THEN {Raise("401")}
    ELSE {Bool(u.val \in Instructors), Raise("StoreUnavailable")}

\* Indexes of the answers in st recorded for (s, d).
Matching(st, s, d) == {k \in 1..Len(st) : st[k].sid = s /\ st[k].div_id = d}

Max(S) == CHOOSE m \in S : \A n \in S : n <= m

\* crud.fetch_last_answer_table_entry, the lookup proper: the most recent
\* matching entry, or None.
LastEntry(st, q) ==
    IF q.sid.tag # "str" \/ Matching(st, q.sid.val, q.div_id) = {}
    THEN None
    ELSE LET k == Max(Matching(st, q.sid.val, q.div_id))
         IN Row(st[k].sid, st[k].div_id, k)

FetchOutcomes(st, q) == {LastEntry(st, q), Raise("StoreUnavailable")}

\* ------------------------------------------------------------------------
\* get_assessment_results
\* ------------------------------------------------------------------------

\* Variants of ResolveSid with one branch of lines 51-55 changed.
ResolveSidNoOverride(isInstr, s, u) == IF ~Truthy(s) THEN u ELSE s
ResolveSidAlwaysSelf(isInstr, s, u) == u
ResolveSidNoDefault(isInstr, s, u) == IF isInstr THEN s ELSE u

\* Lines 51-55 as a function: the sid in request_data after resolution.
ResolveSid(isInstr, s, u) ==
    IF isInstr
    THEN IF ~Truthy(s) THEN u ELSE s
    ELSE u

\* Variant: request_data is one object shared by all invocations.
AssignSidShared(i, v) == [j \in Inv |-> v]

\* ``request_data.sid = ...``: request_data belongs to one invocation.
AssignSid(i, v) == [sid EXCEPT ![i] = v]

\* Variant: server-side grading merged into the returned row.
ResponseGraded(r) ==
    IF ~Truthy(r)
    THEN Str("")
    ELSE [tag |-> "row", sid |-> r.sid, div_id |-> r.div_id,
          timestamp |-> r.timestamp, correct |-> TRUE]

\* Variant: the absent row itself is returned.
ResponseNull(r) == r

\* Lines 58-68: the value returned for a fetched row.
Response(r) == IF ~Truthy(r) THEN Str("") ELSE r

\* The framework calls the handler with the parsed body and the request; the
\* handler runs up to its first await (line 51).
Receive(i) ==
    /\ pc[i] = "idle"
    /\ \E u \in UserValues, s \in SidValues, d \in DivIds :
         /\ user' = [user EXCEPT ![i] = u]
         /\ reqSid' = [reqSid EXCEPT ![i] = s]
         /\ sid' = [sid EXCEPT ![i] = s]
         /\ div_id' = [div_id EXCEPT ![i] = d]
    /\ pc' = [pc EXCEPT ![i] = "await_is_instructor"]
    /\ log' = [log EXCEPT ![i] = Append(@, "is_instructor")]
    /\ UNCHANGED <<query, instr, row, result, store>>
    /\ UNCHANGED fvars

\* Variant: the failure of is_instructor is swallowed and the lookup is
\* issued with the sid as supplied.
InstructorRaisedSwallowed(i, out) ==
    /\ query' = [query EXCEPT ![i] = [sid |-> sid[i], div_id |-> div_id[i]]]
    /\ log' = [log EXCEPT ![i] = Append(@, "fetch")]
    /\ pc' = [pc EXCEPT ![i] = "await_fetch"]
    /\ UNCHANGED <<sid, result>>

\* is_instructor raised: nothing in the handler catches it.
InstructorRaised(i, out) ==
    /\ result' = [result EXCEPT ![i] = out]
    /\ pc' = [pc EXCEPT ![i] = "done"]
    /\ UNCHANGED <<sid, query, log>>

\* is_instructor returned: lines 51-57, up to the await of the lookup.
InstructorReturned(i, out) ==
    /\ sid' = AssignSid(i, ResolveSid(out.val, sid[i], user[i]))
    /\ query' = [query EXCEPT ![i] = [sid |-> sid'[i], div_id |-> div_id[i]]]
    /\ log' = [log EXCEPT ![i] = @ \o <<"resolve", "fetch">>]
    /\ pc' = [pc EXCEPT ![i] = "await_fetch"]
    /\ UNCHANGED result

\* The await of line 51 completes.
IsInstructorReturn(i) ==
    /\ pc[i] = "await_is_instructor"
    /\ \E out \in IsInstructorOutcomes(user[i]) :
         /\ instr' = [instr EXCEPT ![i] = out]
         /\ IF out.tag = "raise"
            THEN InstructorRaised(i, out)
            ELSE InstructorReturned(i, out)
    /\ UNCHANGED <<user, reqSid, div_id, row, store>>
    /\ UNCHANGED fvars

\* Variant: a failed lookup is reported as "no answer on the server".
FetchRaisedMasked(i, out) ==
    /\ result' = [result EXCEPT ![i] = Str("")]
    /\ log' = [log EXCEPT ![i] = Append(@, "respond")]
    /\ pc' = [pc EXCEPT ![i] = "done"]
    /\ UNCHANGED query

\* Variant: a failed lookup is issued again.
FetchRaisedRetry(i, out) ==
    /\ log' = [log EXCEPT ![i] = Append(@, "fetch")]
    /\ pc' = [pc EXCEPT ![i] = "await_fetch"]
    /\ UNCHANGED <<query, result>>

\* fetch_last_answer_table_entry raised: nothing in the handler catches it.
FetchRaised(i, out) ==
    /\ result' = [result EXCEPT ![i] = out]
    /\ pc' = [pc EXCEPT ![i] = "done"]
    /\ UNCHANGED <<query, log>>

\* fetch_last_answer_table_entry returned: lines 57-68.
FetchReturned(i, out) ==
    /\ result' = [result EXCEPT ![i] = Response(out)]
    /\ log' = [log EXCEPT ![i] = Append(@, "respond")]
    /\ pc' = [pc EXCEPT ![i] = "done"]
    /\ UNCHANGED query

\* The await of line 57 completes.
FetchReturn(i) ==
    /\ pc[i] = "await_fetch"
    /\ \E out \in FetchOutcomes(store, query[i]) :
         /\ row' = [row EXCEPT ![i] = out]
         /\ IF out.tag = "raise"
            THEN FetchRaised(i, out)
            ELSE FetchReturned(i, out)
    /\ UNCHANGED <<user, reqSid, sid, div_id, instr, store>>
    /\ UNCHANGED fvars

\* The answer tables the endpoint may find.
Stores ==
    UNION {[1..n -> [sid : Usernames, div_id : DivIds]] : n \in 0..MaxStore}

HandlerInit ==
    /\ pc = [i \in Inv |-> "idle"]
    /\ user = [i \in Inv |-> None]
    /\ reqSid = [i \in Inv |-> None]
    /\ sid = [i \in Inv |-> None]
    /\ div_id = [i \in Inv |-> "q1"]
    /\ query = [i \in Inv |-> Pending]
    /\ instr = [i \in Inv |-> Pending]
    /\ row = [i \in Inv |-> Pending]
    /\ result = [i \in Inv |-> Pending]
    /\ log = [i \in Inv |-> <<>>]

FixtureIdle ==
    /\ fpc = "idle"
    /\ dbType = "PostgreSQL"
    /\ rows = [t \in Tables |-> 0]
    /\ idx = 1

Init ==
    /\ HandlerInit
    /\ store \in Stores
    /\ FixtureIdle

Next ==
    \/ \E i \in Inv : Receive(i)
    \/ \E i \in Inv : IsInstructorReturn(i)
    \/ \E i \in Inv : FetchReturn(i)

Spec == Init /\ [][Next]_vars

\* ------------------------------------------------------------------------
\* bookserver_session (test/conftest.py)
\* ------------------------------------------------------------------------
DatabaseTypes == {"PostgreSQL", "SQLite"}
RowCounts == [Tables -> 0..MaxRows]

\* ``async with engine.begin() as conn`` (line 298).
FixtureBegin ==
    /\ fpc = "idle"
    /\ fpc' = "in_txn"
    /\ idx' = 1
    /\ UNCHANGED <<dbType, rows>>
    /\ UNCHANGED hvars

\* Lines 299-301: one TRUNCATE of all the tables.  On success the block
\* commits and the fixture yields (line 311); a failure leaves the block,
\* rolls back and the fixture ends in an error.
Truncate ==
    /\ fpc = "in_txn"
    /\ dbType = "PostgreSQL"
    /\ \/ /\ rows' = [t \in Tables |-> 0]
          /\ fpc' = "yielded"
       \/ /\ rows' = rows
          /\ fpc' = "error"
    /\ UNCHANGED <<dbType, idx>>
    /\ UNCHANGED hvars

\* Lines 303-308: one iteration of the loop.  The DELETE either empties the
\* table or raises; the exception is printed and the loop goes on.
DeleteTable ==
    /\ fpc = "in_txn"
    /\ dbType # "PostgreSQL"
    /\ idx <= NumTables
    /\ \/ rows' = [rows EXCEPT ![idx] = 0]
       \/ rows' = rows
    /\ idx' = idx + 1
    /\ UNCHANGED <<fpc, dbType>>
    /\ UNCHANGED hvars

\* The loop is over: the block commits and the fixture yields (line 311).
Yield ==
    /\ fpc = "in_txn"
    /\ dbType # "PostgreSQL"
    /\ idx > NumTables
    /\ fpc' = "yielded"
    /\ UNCHANGED <<dbType, rows, idx>>
    /\ UNCHANGED hvars

\* The test that received the session runs and leaves rows behind.
TestRun ==
    /\ fpc = "yielded"
    /\ rows' \in RowCounts
    /\ fpc' = "idle"
    /\ UNCHANGED <<dbType, idx>>
    /\ UNCHANGED hvars

\* The fixture failed: pytest reports the error and goes on to the next test.
FixtureError ==
    /\ fpc = "error"
    /\ fpc' = "idle"
    /\ UNCHANGED <<dbType, rows, idx>>
    /\ UNCHANGED hvars

FixtureInit ==
    /\ HandlerInit
    /\ store = <<>>
    /\ fpc = "idle"
    /\ dbType \in DatabaseTypes
    /\ rows \in RowCounts
    /\ idx = 1

FixtureNext ==
    \/ FixtureBegin
    \/ Truncate
    \/ DeleteTable
    \/ Yield
    \/ TestRun
    \/ FixtureError

SpecFixture == FixtureInit /\ [][FixtureNext]_vars

\* ------------------------------------------------------------------------
\* Properties
\* ------------------------------------------------------------------------
Called(i) == query[i] # Pending
Done(i) == pc[i] = "done"
Count(sq, e) == Cardinality({k \in 1..Len(sq) : sq[k] = e})
IsPrefix(a, b) == Len(a) <= Len(b) /\ SubSeq(b, 1, Len(a)) = a
Steps == <<"is_instructor", "resolve", "fetch", "respond">>

\* C1: when is_instructor answered false, the sid passed to
\* fetch_last_answer_table_entry is the caller's own username, whatever sid
\* the client supplied.
NonInstructorOverride ==
    \A i \in Inv :
        (instr[i] = Bool(FALSE) /\ Called(i)) => query[i].sid = user[i]

NonInstructorOverrideWitness ==
    \E i \in Inv :
        /\ instr[i] = Bool(FALSE)
        /\ Called(i)
        /\ Truthy(reqSid[i])
        /\ reqSid[i] # user[i]

\* C2: when is_instructor answered true and the request carries a non-empty
\* sid, the sid passed to fetch_last_answer_table_entry is that sid.
InstructorOverride ==
    \A i \in Inv :
        (instr[i] = Bool(TRUE) /\ Truthy(reqSid[i]) /\ Called(i))
            => query[i].sid = reqSid[i]

InstructorOverrideWitness ==
    \E i \in Inv :
        /\ instr[i] = Bool(TRUE)
        /\ Called(i)
        /\ Truthy(reqSid[i])
        /\ reqSid[i] # user[i]
        /\ Done(i)

\* C3: when is_instructor answered true and the request's sid is absent or
\* empty, the sid passed to fetch_last_answer_table_entry is the caller's
\* own username.
InstructorDefault ==
    \A i \in Inv :
        (instr[i] = Bool(TRUE) /\ ~Truthy(reqSid[i]) /\ Called(i))
            => query[i].sid = user[i]

InstructorDefaultWitness ==
    /\ \E i \in Inv : instr[i] = Bool(TRUE) /\ reqSid[i] = None /\ Called(i)
    /\ \E i \in Inv : instr[i] = Bool(TRUE) /\ reqSid[i] = Str("") /\ Called(i)

\* C4: an invocation without a logged-in user never assigns request_data.sid
\* and never calls fetch_last_answer_table_entry, and it ends in HTTP 401.
UnauthenticatedRejection ==
    \A i \in Inv :
        (pc[i] # "idle" /\ user[i] = None) =>
            /\ sid[i] = reqSid[i]
            /\ ~Called(i)
            /\ Count(log[i], "resolve") = 0
            /\ Count(log[i], "fetch") = 0
            /\ row[i] = Pending
            /\ Done(i) => result[i] = Raise("401")

UnauthenticatedRejectionWitness ==
    \E i \in Inv : user[i] = None /\ Done(i) /\ Truthy(reqSid[i])

\* C5: when fetch_last_answer_table_entry returned an entry, the invocation
\* returns exactly that entry.
PassThroughFidelity ==
    \A i \in Inv : (Done(i) /\ row[i].tag = "row") => result[i] = row[i]

PassThroughFidelityWitness ==
    \E i \in Inv : Done(i) /\ row[i].tag = "row" /\ row[i].timestamp > 1

\* C6: when fetch_last_answer_table_entry returned no entry, the invocation
\* returns the empty string: it does not raise and does not return None.
NoMatchPassThrough ==
    \A i \in Inv : (Done(i) /\ row[i] = None) => result[i] = Str("")

NoMatchPassThroughWitness ==
    \E i \in Inv : Done(i) /\ row[i] = None /\ Len(store) > 0

\* C7: when is_instructor or fetch_last_answer_table_entry raised, the
\* invocation has ended in that failure, and the failed call was made once.
StoreFailurePropagation ==
    \A i \in Inv :
        /\ instr[i].tag = "raise" =>
              /\ Done(i)
              /\ result[i] = instr[i]
              /\ Count(log[i], "is_instructor") = 1
              /\ ~Called(i)
        /\ row[i].tag = "raise" =>
              /\ Done(i)
              /\ result[i] = row[i]
              /\ Count(log[i], "fetch") = 1

StoreFailurePropagationWitness ==
    /\ \E i \in Inv : row[i] = Raise("StoreUnavailable")
    /\ \E i \in Inv : instr[i] = Raise("StoreUnavailable")

\* What invocation i looks up and returns when it runs alone.
AloneSid(i) == ResolveSid(user[i].val \in Instructors, reqSid[i], user[i])
AloneQuery(i) == [sid |-> AloneSid(i), div_id |-> div_id[i]]
AloneResult(i) == Response(LastEntry(store, AloneQuery(i)))

\* C8: under every interleaving, each invocation looks up the sid resolved
\* from its own request and identity, and returns what it would return if it
\* ran alone against the same store.
ConcurrentIndependence ==
    \A i \in Inv :
        /\ pc[i] = "await_is_instructor" => sid[i] = reqSid[i]
        /\ Called(i) => query[i] = AloneQuery(i) /\ sid[i] = AloneSid(i)
        /\ (Done(i) /\ result[i].tag # "raise") => result[i] = AloneResult(i)

ConcurrentIndependenceWitness ==
    \E i, j \in Inv :
        /\ i # j
        /\ Done(i) /\ result[i].tag = "row"
        /\ pc[j] = "await_fetch"
        /\ query[i].sid # query[j].sid
        /\ reqSid[i] = reqSid[j]

\* C9: the steps of an invocation happen once each and in the order
\* is_instructor, resolution, lookup, response.
StepOrdering ==
    \A i \in Inv :
        /\ IsPrefix(log[i], Steps)
        /\ Called(i) <=> Count(log[i], "fetch") = 1
        /\ (Done(i) /\ result[i].tag # "raise") => log[i] = Steps

StepOrderingWitness ==
    \E i \in Inv : log[i] = Steps /\ Done(i)

\* C10: whenever the fixture yields to a test, every table of
\* tables_to_delete is empty.
CleanDatabaseAtYield ==
    fpc = "yielded" => \A t \in Tables : rows[t] = 0

====
